---- MODULE Spec2Model ----
(***************************************************************************)
(* Jm-triviality pipeline of crypsis3301/Jones-m-triviality:               *)
(*   - the two algebra engines (BLexpansion.py, JVP.py) and the Jm index   *)
(*     derived from them (Jm_triviality.py, Jtransform),                   *)
(*   - the shard splitter (ultra_fast_split),                              *)
(*   - the shard classifier (process_split_file) and merge_results.        *)
(* Each part has its own specification over the shared variables:          *)
(*   SpecEngine, SpecSplit, SpecWorker, SpecLib, and SpecReruns for two    *)
(*   driver runs sharing the output files.                                 *)
(***************************************************************************)
EXTENDS Integers, Sequences, FiniteSets, TLC

VARIABLES
    e_coefs,      \* engines: the coefficient map handed to the engines
    e_res,        \* engines: call name -> outcome of that call (or NotRun)
    corpus,       \* splitter: the records the scraper wrote to the corpus file
    json_file,    \* splitter: the bytes of the corpus file
    n_splits,     \* splitter: requested shard count
    data_start,   \* splitter: offset where the data object's content begins
    data_end,     \* splitter: offset of the file's last closing brace
    split_points, \* splitter: offsets recorded so far
    split_files,  \* splitter: the shard files written so far (bytes)
    split_pc,     \* splitter: position in ultra_fast_split
    rep,             \* driver: the --R option handed to every worker
    sample_interval, \* driver: the --S option (module global)
    worker_id,       \* workers: index of the worker whose shard is being read
    records_left,    \* workers: records of its shard the parser has not yielded yet
    corpus_left,     \* workers: records of the corpus lying in later shards
    count,           \* workers: process_split_file's count
    local_Jm_table,  \* workers: crossing bucket -> <<holder label, max Jm, histogram>>
    local_knot_ids,  \* workers: Jm -> list of runs <<crossings, first_id, last_id, label>>
    worker_pc,       \* workers: position in process_split_file / main
    results,         \* driver: pool.map's list of worker results
    merged,          \* driver: outcome of merge_results
    prob_file,       \* driver: the probability table file (bucket -> list), {} before the run
    knot_id_file,    \* driver: the run table file (Jm -> list of runs)
    lib_coefs,    \* library calls: the coefficient map handed to the derivations
    lib_n,        \* library calls: taylor_from_jones's order n
    lib_den,      \* library calls: taylor_from_jones's exponent_den
    lib_half,     \* library calls: jones_to_Vxp's input_q_is_half_power
    lib_series,   \* library calls: what taylor_from_jones returned (or NoSeries)
    lib_pair,     \* library calls: what jones_to_Vxp returned (or NoPair)
    run_pc,       \* two driver runs: each run's position in main
    run_merged,   \* two driver runs: each run's outcome of merge_results
    run_data,     \* two driver runs: the table each run loaded at line 370
    run_overlap   \* two driver runs: a run loaded while the other was between its load and its write

engine_vars == <<e_coefs, e_res>>
split_vars == <<corpus, json_file, n_splits, data_start, data_end, split_points, split_files, split_pc>>
worker_vars == <<rep, sample_interval, worker_id, records_left, corpus_left, count,
                 local_Jm_table, local_knot_ids, worker_pc, results, merged,
                 prob_file, knot_id_file>>
lib_vars == <<lib_coefs, lib_n, lib_den, lib_half, lib_series, lib_pair>>
rerun_vars == <<run_pc, run_merged, run_data, run_overlap>>
vars == <<engine_vars, split_vars, worker_vars, lib_vars, rerun_vars>>

\* ------------------------------------------------------------------------
\* Helpers
\* ------------------------------------------------------------------------
Abs(n) == IF n < 0 THEN -n ELSE n
Max(S) == CHOOSE m \in S : \A s \in S : s <= m
Min(S) == CHOOSE m \in S : \A s \in S : m <= s

\* What a call produced: a returned Jm (err = "") or the exception it raised.
Returned(m) == [err |-> "", m |-> m]
Raised(e) == [err |-> e, m |-> 0]

\* ------------------------------------------------------------------------
\* JVP.py: sparse polynomials in p (dict degree -> coefficient)
\* ------------------------------------------------------------------------
EmptyPoly == [d \in {} |-> 0]

\* dict.get(i, 0)
Get(A, i) == IF i \in DOMAIN A THEN A[i] ELSE 0

\* A faulty _poly_add: zero sums stay in the dict.
_poly_add_KeepsZeros(A, B) == [d \in DOMAIN A \cup DOMAIN B |-> Get(A, d) + Get(B, d)]

_poly_add(A, B) ==
    LET out(d) == Get(A, d) + Get(B, d)
    IN  [d \in {k \in DOMAIN A \cup DOMAIN B : out(k) # 0} |-> out(d)]

_poly_scalar_mul(A, k) ==
    IF k = 0 THEN EmptyPoly ELSE [d \in DOMAIN A |-> k * A[d]]

_poly_mul_p(A) == [d \in {k + 1 : k \in DOMAIN A} |-> A[d - 1]]

\* x*(A + B x) = B + (A + p B) x
_mul_by_x(A, B) == <<B, _poly_add(A, _poly_mul_p(B))>>

\* A faulty _mul_by_y: the sign of the p*A term is lost.
_mul_by_y_SignLost(A, B) == <<_poly_add(B, _poly_mul_p(A)), A>>

\* y*(A + B x) = (B - p A) + A x
_mul_by_y(A, B) == <<_poly_add(B, _poly_scalar_mul(_poly_mul_p(A), -1)), A>>

\* [(A_0,B_0),...,(A_n,B_n)] with x^k = A_k + B_k x; entry k is T[k + 1].
RECURSIVE _power_table_x(_)
_power_table_x(n) ==
    IF n = 0 THEN << <<(0 :> 1), EmptyPoly>> >>
    ELSE IF n = 1 THEN << <<(0 :> 1), EmptyPoly>>, <<(0 :> 0), (0 :> 1)>> >>
    ELSE LET T == _power_table_x(n - 1)
         IN  Append(T, _mul_by_x(T[n][1], T[n][2]))

\* The same for y = x - p.
RECURSIVE _power_table_y(_)
_power_table_y(n) ==
    IF n = 0 THEN << <<(0 :> 1), EmptyPoly>> >>
    ELSE IF n = 1 THEN << <<(0 :> 1), EmptyPoly>>, <<(1 :> -1), (0 :> 1)>> >>
    ELSE LET T == _power_table_y(n - 1)
         IN  Append(T, _mul_by_y(T[n][1], T[n][2]))

\* The loop of jones_to_Vxp over coefs.items(): adds each term's table entry,
\* scaled by its coefficient, to the running totals.  The totals are values
\* the loop holds: each round's pair is computed before the next round starts.
RECURSIVE VxpAccumulate(_, _, _, _, _, _)
VxpAccumulate(keys, coefs, half, X, Y, tot) ==
    IF keys = {} THEN tot
    ELSE LET k == CHOOSE e \in keys : TRUE
             c == coefs[k]
             idx == IF k >= 0 THEN (IF half THEN k ELSE 2 * k)
                    ELSE (IF half THEN -k ELSE 2 * (-k))
             AB == IF k >= 0 THEN X[idx + 1] ELSE Y[idx + 1]
             A_k == IF c # 1 THEN _poly_scalar_mul(AB[1], c) ELSE AB[1]
             B_k == IF c # 1 THEN _poly_scalar_mul(AB[2], c) ELSE AB[2]
             nxt == IF c = 0 THEN tot
                    ELSE <<_poly_add(tot[1], A_k), _poly_add(tot[2], B_k)>>
         IN  IF Len(nxt) = 2
             THEN VxpAccumulate(keys \ {k}, coefs, half, X, Y, nxt)
             ELSE nxt

\* V(q) = sum_k c_k q^k  ->  <<A, B>> with V = A(p) + B(p) x.  Both tables are
\* built (each has its entry 0) before the loop over the terms starts.
jones_to_Vxp(coefs, input_q_is_half_power) ==
    IF DOMAIN coefs = {} THEN <<EmptyPoly, EmptyPoly>>
    ELSE LET pos == {k \in DOMAIN coefs : k >= 0}
             neg == {-k : k \in {j \in DOMAIN coefs : j < 0}}
             max_pos == IF pos = {} THEN 0 ELSE Max(pos)
             max_neg == IF neg = {} THEN 0 ELSE Max(neg)
             X == _power_table_x(IF input_q_is_half_power THEN max_pos ELSE 2 * max_pos)
             Y == _power_table_y(IF input_q_is_half_power THEN max_neg ELSE 2 * max_neg)
         IN  IF Len(X) > 0 /\ Len(Y) > 0
             THEN VxpAccumulate(DOMAIN coefs, coefs, input_q_is_half_power, X, Y,
                                <<EmptyPoly, EmptyPoly>>)
             ELSE <<EmptyPoly, EmptyPoly>>

\* ------------------------------------------------------------------------
\* BLexpansion.py: exact rationals (fractions.Fraction) as normalised <<n, d>>
\* ------------------------------------------------------------------------
RECURSIVE GCD(_, _)
GCD(a, b) == IF b = 0 THEN a ELSE GCD(b, a % b)

\* Fraction(n, d): lowest terms, positive denominator.
Fraction(n, d) ==
    LET s == IF d < 0 THEN -1 ELSE 1
        g == GCD(Abs(n), Abs(d))
    IN  <<(s * n) \div g, (s * d) \div g>>

FracAdd(a, b) ==
    LET l == (a[2] \div GCD(a[2], b[2])) * b[2]
    IN  Fraction(a[1] * (l \div a[2]) + b[1] * (l \div b[2]), l)

FracMul(a, b) ==
    LET g1 == GCD(Abs(a[1]), b[2])
        g2 == GCD(Abs(b[1]), a[2])
    IN  <<(a[1] \div g1) * (b[1] \div g2), (a[2] \div g2) * (b[2] \div g1)>>

RECURSIVE factorial(_)
factorial(m) == IF m = 0 THEN 1 ELSE m * factorial(m - 1)

\* A faulty _as_fraction_exponent: exponent_den is ignored.
_as_fraction_exponent_IgnoresDen(key, exponent_den) == Fraction(key, 1)

\* int key k -> k / exponent_den
_as_fraction_exponent(key, exponent_den) == Fraction(key, exponent_den)

\* rp before each of the rounds m = 0..n of "rp *= r": <<r^0, ..., r^n>>,
\* entry m is FracPow(r, n)[m + 1]
RECURSIVE FracPow(_, _)
FracPow(r, n) ==
    IF n = 0 THEN << <<1, 1>> >>
    ELSE LET rp == FracPow(r, n - 1)
         IN  Append(rp, FracMul(rp[n], r))

\* The (r, c) pairs of the terms with c # 0, keyed by the exponent key; each r
\* with the values rp takes in the rounds m = 0..n.
Terms(coefs, n, exponent_den) ==
    [k \in {e \in DOMAIN coefs : coefs[e] # 0} |->
        [c |-> coefs[k], rp |-> FracPow(_as_fraction_exponent(k, exponent_den), n)]]

\* M after the terms of keys: M[m] += c * rp for m = 0..n; M_m is
\* PowerSum(...)[m + 1]
RECURSIVE PowerSum(_, _, _)
PowerSum(keys, terms, n) ==
    IF keys = {} THEN [m \in 1..(n + 1) |-> <<0, 1>>]
    ELSE LET k == CHOOSE e \in keys : TRUE
             M == PowerSum(keys \ {k}, terms, n)
         IN  [m \in DOMAIN M |-> FracAdd(M[m], FracMul(<<terms[k].c, 1>>, terms[k].rp[m]))]

\* [a_0, ..., a_n] with a_m = M_m / m!; a_m is a[m + 1].  n < 0 raises ValueError.
taylor_from_jones(coefs, n, exponent_den) ==
    IF n < 0 THEN [err |-> "ValueError", a |-> <<>>]
    ELSE LET terms == Terms(coefs, n, exponent_den)
             M == PowerSum(DOMAIN terms, terms, n)
         IN  [err |-> "",
              a |-> [i \in DOMAIN M |-> FracMul(M[i], <<1, factorial(i - 1)>>)]]

\* ------------------------------------------------------------------------
\* Jm_triviality.py: the Jm index from either engine
\* ------------------------------------------------------------------------
\* A faulty Jm_jvp: the [1:] slice is forgotten, so degree 0 counts.
Jm_jvp_NoSkip(A, B) ==
    LET keys == DOMAIN A \cup DOMAIN B
    IN  IF keys = {} THEN Raised("ValueError")
        ELSE LET hits == {q \in 0..Max(keys) : Get(A, q) + Get(B, q) # 0}
             IN  IF hits = {} THEN Raised("IndexError")
                 ELSE Returned(Min(hits) + 1)

\* Jm_jvp(A, B): first degree >= 1 whose merged coefficient A_i + B_i is nonzero.
\* max() of no keys raises ValueError, [...][0] of no hit raises IndexError.
Jm_jvp(A, B) ==
    LET keys == DOMAIN A \cup DOMAIN B
    IN  IF keys = {} THEN Raised("ValueError")
        ELSE LET hits == {q \in 0..(Max(keys) - 1) : Get(A, q + 1) + Get(B, q + 1) # 0}
             IN  IF hits = {} THEN Raised("IndexError")
                 ELSE Returned(Min(hits) + 1)

\* A faulty Jm_bl: the [1:] slice is forgotten, so a_0 counts.
Jm_bl_NoSkip(c) ==
    LET hits == {k \in 0..(Len(c) - 1) : c[k + 1] # <<0, 1>>}
    IN  IF hits = {} THEN Raised("IndexError")
        ELSE Returned(Min(hits) + 1)

\* Jm_bl(c): first m >= 1 with a_m # 0; IndexError when a_1..a_n are all zero.
Jm_bl(c) ==
    LET hits == {k \in 0..(Len(c) - 2) : c[k + 2] # <<0, 1>>}
    IN  IF hits = {} THEN Raised("IndexError")
        ELSE Returned(Min(hits) + 1)

\* Expansion order the driver's BL entry uses.
BLOrder == 11

\* Jm_jvp(*AB): the pair is unpacked into Jm_jvp's two parameters; a tuple of
\* another length does not fit them (TypeError).
Jm_of_Vxp(AB) ==
    IF Len(AB) = 2 THEN Jm_jvp(AB[1], AB[2]) ELSE Raised("TypeError")

\* Jtransform[key](coeff); an unknown key raises KeyError.
Jtransform(key, coeff) ==
    CASE key = "JVP" -> Jm_of_Vxp(jones_to_Vxp(coeff, FALSE))
      [] key = "BL" -> Jm_bl(taylor_from_jones(coeff, BLOrder, 1).a)
      [] OTHER -> Raised("KeyError")

\* ------------------------------------------------------------------------
\* Engine inputs
\* ------------------------------------------------------------------------
MaxExp == 2
MaxCoef == 2
MaxTerms == 2
\* expansion order used for the half-power comparison (exponent_den = 2)
HalfOrder == 4

Trefoil == (1 :> 1) @@ (3 :> 1) @@ (4 :> -1)
Unknot == (0 :> 1)
UnlinkHalf == (1 :> -1) @@ (-1 :> -1)

\* Mirrored input: negate all exponents, keep coefficients.
Mirror(coefs) == [k \in {-j : j \in DOMAIN coefs} |-> coefs[-k]]
MirrorTrefoil == Mirror(Trefoil)

NonZeroCoefs == (-MaxCoef..MaxCoef) \ {0}
CoefMaps ==
    UNION {[S -> NonZeroCoefs] : S \in {T \in SUBSET (-MaxExp..MaxExp) : Cardinality(T) <= MaxTerms}}
    \cup {Trefoil, MirrorTrefoil, Unknot, UnlinkHalf}

\* ------------------------------------------------------------------------
\* Files as byte sequences: offset o of a file is element o + 1
\* ------------------------------------------------------------------------
Digits == {"0", "1", "2", "3", "4", "5", "6", "7", "8", "9"}
Letters == {"a", "b", "c", "d", "e", "f", "g", "h", "i", "j", "k", "l", "m",
            "n", "o", "p", "q", "r", "s", "t", "u", "v", "w", "x", "y", "z",
            "A", "B", "C", "D", "E", "F", "G", "H", "I", "J", "K", "L", "M",
            "N", "O", "P", "Q", "R", "S", "T", "U", "V", "W", "X", "Y", "Z"}
\* bytes.isspace(): what lstrip()/rstrip() remove
Whitespace == {" ", "\n", "\t", "\r"}

\* bytes[a:b] for 0 <= a
Slice(s, a, b) ==
    LET hi == IF b > Len(s) THEN Len(s) ELSE b
    IN  IF a >= hi THEN <<>> ELSE [i \in 1..(hi - a) |-> s[a + i]]

StartsWith(s, pat) == Len(s) >= Len(pat) /\ Slice(s, 0, Len(pat)) = pat
EndsWith(s, pat) == Len(s) >= Len(pat) /\ Slice(s, Len(s) - Len(pat), Len(s)) = pat

\* bytes.find(pat, start): lowest offset >= start where pat occurs, or -1
Find(s, pat, start) ==
    LET hits == {o \in start..(Len(s) - Len(pat)) : Slice(s, o, o + Len(pat)) = pat}
    IN  IF hits = {} THEN -1 ELSE Min(hits)

\* bytes.rfind(pat): highest offset where pat occurs, or -1
RFind(s, pat) ==
    LET hits == {o \in 0..(Len(s) - Len(pat)) : Slice(s, o, o + Len(pat)) = pat}
    IN  IF hits = {} THEN -1 ELSE Max(hits)

RECURSIVE lstrip(_)
lstrip(s) == IF s # <<>> /\ s[1] \in Whitespace THEN lstrip(Tail(s)) ELSE s

RECURSIVE rstrip(_)
rstrip(s) == IF s # <<>> /\ s[Len(s)] \in Whitespace THEN rstrip(SubSeq(s, 1, Len(s) - 1)) ELSE s

\* ------------------------------------------------------------------------
\* OptimizedJonesScraper1.py: the corpus file as the scraper writes it
\* ------------------------------------------------------------------------
\* '{\n  "meta": {...},\n  "data": {\n' with a one-key meta object
CorpusHead == <<"{", "\n", " ", " ", "\"", "m", "e", "t", "a", "\"", ":", " ", "{", "\n", " ", " ", " ", " ", "\"", "v", "a", "r", "i", "a", "b", "l", "e", "\"", ":", " ", "\"", "q", "\"", "\n", " ", " ", "}", ",", "\n", " ", " ", "\"", "d", "a", "t", "a", "\"", ":", " ", "{", "\n">>
\* after backing up over the last ",\n": '\n  }\n}\n'
CorpusTail == <<"\n", " ", " ", "}", "\n", "}", "\n">>

\* json.dumps of a coefficient dict body: "e": c, "e": c, ...
RECURSIVE DumpCoeffs(_)
DumpCoeffs(cs) ==
    IF cs = <<>> THEN <<>>
    ELSE <<"\"">> \o cs[1][1] \o <<"\"", ":", " ">> \o cs[1][2]
         \o (IF Len(cs) > 1 THEN <<",", " ">> ELSE <<>>) \o DumpCoeffs(Tail(cs))

\* f'  "{label}": {json.dumps(entry)},\n' with entry = {"coeffs": {...}}
RecordLine(rec) ==
    <<" ", " ", "\"">> \o rec.label \o <<"\"", ":", " ">>
    \o <<"{", "\"", "c", "o", "e", "f", "f", "s", "\"", ":", " ", "{">>
    \o DumpCoeffs(rec.coeffs) \o <<"}", "}">> \o <<",", "\n">>

RECURSIVE RecordLines(_)
RecordLines(recs) ==
    IF recs = <<>> THEN <<>> ELSE RecordLine(recs[1]) \o RecordLines(Tail(recs))

\* The whole file: head, one line per record, the last ",\n" overwritten by the tail
CorpusBytes(recs) ==
    LET body == CorpusHead \o RecordLines(recs)
    IN  SubSeq(body, 1, Len(body) - 2) \o CorpusTail

\* ------------------------------------------------------------------------
\* A JSON reader for the shard files (ijson.kvitems(f, 'data'))
\* ------------------------------------------------------------------------
JStr(chars) == [t |-> "str", v |-> chars]
JNum(chars) == [t |-> "num", v |-> chars]
JObj(members) == [t |-> "obj", v |-> members]
ParseFail == [ok |-> FALSE, pos |-> 0, val |-> JStr(<<>>)]
ParseOk(p, v) == [ok |-> TRUE, pos |-> p, val |-> v]

RECURSIVE SkipWs(_, _)
SkipWs(s, i) == IF i <= Len(s) /\ s[i] \in Whitespace THEN SkipWs(s, i + 1) ELSE i

\* s[i] is an opening quote: the string's characters and the index after it
ParseString(s, i) ==
    LET close == {j \in (i + 1)..Len(s) : s[j] = "\""}
    IN  IF close = {} THEN ParseFail
        ELSE ParseOk(Min(close) + 1, JStr(SubSeq(s, i + 1, Min(close) - 1)))

RECURSIVE DigitsEnd(_, _)
DigitsEnd(s, i) == IF i <= Len(s) /\ s[i] \in Digits THEN DigitsEnd(s, i + 1) ELSE i

\* an integer literal: -?[0-9]+
ParseNumber(s, i) ==
    LET d == IF s[i] = "-" THEN i + 1 ELSE i
        e == DigitsEnd(s, d)
    IN  IF e = d THEN ParseFail ELSE ParseOk(e, JNum(SubSeq(s, i, e - 1)))

RECURSIVE ParseValue(_, _)
RECURSIVE ParseMembers(_, _, _)

\* members of an object, k at the first key; ends after the closing brace
ParseMembers(s, k, acc) ==
    IF k > Len(s) \/ s[k] # "\"" THEN ParseFail
    ELSE LET key == ParseString(s, k)
             c == SkipWs(s, key.pos)
         IN  IF ~key.ok \/ c > Len(s) \/ s[c] # ":" THEN ParseFail
             ELSE LET val == ParseValue(s, c + 1)
                      n == SkipWs(s, val.pos)
                      got == Append(acc, <<key.val.v, val.val>>)
                  IN  IF ~val.ok \/ n > Len(s) THEN ParseFail
                      ELSE IF s[n] = "," THEN ParseMembers(s, SkipWs(s, n + 1), got)
                      ELSE IF s[n] = "}" THEN ParseOk(n + 1, JObj(got))
                      ELSE ParseFail

ParseValue(s, i) ==
    LET j == SkipWs(s, i)
    IN  IF j > Len(s) THEN ParseFail
        ELSE IF s[j] = "{"
             THEN LET k == SkipWs(s, j + 1)
                  IN  IF k <= Len(s) /\ s[k] = "}" THEN ParseOk(k + 1, JObj(<<>>))
                      ELSE ParseMembers(s, k, <<>>)
        ELSE IF s[j] = "\"" THEN ParseString(s, j)
        ELSE IF s[j] \in Digits \cup {"-"} THEN ParseNumber(s, j)
        ELSE ParseFail

KeyDataChars == <<"d", "a", "t", "a">>

\* The members of the data object one at a time: the pairs completed before the
\* reader fails are yielded even when the rest of the file is malformed.
RECURSIVE DataMembers(_, _, _)
DataMembers(s, k, acc) ==
    IF k > Len(s) \/ s[k] # "\"" THEN [items |-> acc, ok |-> FALSE, pos |-> 0]
    ELSE LET key == ParseString(s, k)
             c == SkipWs(s, key.pos)
         IN  IF ~key.ok \/ c > Len(s) \/ s[c] # ":" THEN [items |-> acc, ok |-> FALSE, pos |-> 0]
             ELSE LET val == ParseValue(s, c + 1)
                      n == SkipWs(s, val.pos)
                      got == Append(acc, <<key.val.v, val.val>>)
                  IN  IF ~val.ok THEN [items |-> acc, ok |-> FALSE, pos |-> 0]
                      ELSE IF n > Len(s) THEN [items |-> got, ok |-> FALSE, pos |-> 0]
                      ELSE IF s[n] = "," THEN DataMembers(s, SkipWs(s, n + 1), got)
                      ELSE IF s[n] = "}" THEN [items |-> got, ok |-> TRUE, pos |-> n + 1]
                      ELSE [items |-> got, ok |-> FALSE, pos |-> 0]

\* The top-level object's members from index k on; items are the pairs under "data".
\* valid: the whole file is one JSON object with nothing after it.
\* hasData: it holds a "data" member whose value is an object.
RECURSIVE TopMembers(_, _, _, _)
TopMembers(s, k, items, hasData) ==
    LET bad == [items |-> items, valid |-> FALSE, hasData |-> hasData]
    IN  IF k > Len(s) \/ s[k] # "\"" THEN bad
        ELSE LET key == ParseString(s, k)
                 c == SkipWs(s, key.pos)
             IN  IF ~key.ok \/ c > Len(s) \/ s[c] # ":" THEN bad
                 ELSE LET v == SkipWs(s, c + 1)
                          streamed == key.val.v = KeyDataChars /\ v <= Len(s) /\ s[v] = "{"
                          d == IF ~streamed THEN [items |-> <<>>, ok |-> FALSE, pos |-> 0]
                               ELSE LET k2 == SkipWs(s, v + 1)
                                    IN  IF k2 <= Len(s) /\ s[k2] = "}"
                                        THEN [items |-> <<>>, ok |-> TRUE, pos |-> k2 + 1]
                                        ELSE DataMembers(s, k2, <<>>)
                          val == IF streamed THEN ParseOk(d.pos, JObj(<<>>)) ELSE ParseValue(s, c + 1)
                          ok == IF streamed THEN d.ok ELSE val.ok
                          got == IF streamed THEN items \o d.items ELSE items
                          has == hasData \/ streamed
                          n == SkipWs(s, val.pos)
                      IN  IF ~ok \/ n > Len(s) THEN [items |-> got, valid |-> FALSE, hasData |-> has]
                          ELSE IF s[n] = "," THEN TopMembers(s, SkipWs(s, n + 1), got, has)
                          ELSE IF s[n] = "}"
                               THEN [items |-> got, valid |-> SkipWs(s, n + 1) > Len(s), hasData |-> has]
                          ELSE [items |-> got, valid |-> FALSE, hasData |-> has]

\* ijson.kvitems(f, 'data') over the bytes of one file
kvitems(s) ==
    LET j == SkipWs(s, 1)
        bad == [items |-> <<>>, valid |-> FALSE, hasData |-> FALSE]
    IN  IF j > Len(s) \/ s[j] # "{" THEN bad
        ELSE LET k == SkipWs(s, j + 1)
             IN  IF k > Len(s) THEN bad
                 ELSE IF s[k] = "}"
                      THEN [items |-> <<>>, valid |-> SkipWs(s, k + 1) > Len(s), hasData |-> FALSE]
                 ELSE TopMembers(s, k, <<>>, FALSE)

\* ------------------------------------------------------------------------
\* Jm_triviality.py: find_record_boundary_forward and ultra_fast_split
\* ------------------------------------------------------------------------
\* The header and footer windows of ultra_fast_split (10000 bytes in the source),
\* scaled to the size of the modelled files.
ScanWindow == 64
\* max_search of the first scan and of the retry
MaxSearch == 100000
MaxSearchRetry == 500000

\* The backward loop: from the byte just read at offset o, step back until a quote
\* is read; the position after that quote.  Seeking before offset 0 raises OSError.
RECURSIVE BackToQuote(_, _)
BackToQuote(f, o) ==
    IF f[o + 1] = "\"" THEN [kind |-> "found", pos |-> o + 1]
    ELSE IF o - 1 < 0 THEN [kind |-> "oserror", pos |-> 0]
    ELSE BackToQuote(f, o - 1)

\* The forward loop with the file position at tell: None once max_search bytes
\* were read; at the end of the file read(1) returns b'' and the position never
\* advances, so the loop does not end.
RECURSIVE ScanForward(_, _, _, _)
ScanForward(f, start_pos, tell, max_search) ==
    IF ~(tell - start_pos < max_search) THEN [kind |-> "none", pos |-> 0]
    ELSE IF tell >= Len(f) THEN [kind |-> "hang", pos |-> 0]
    ELSE IF f[tell + 1] \in Letters \/ f[tell + 1] = "_" THEN BackToQuote(f, tell)
    ELSE ScanForward(f, start_pos, tell + 1, max_search)

find_record_boundary_forward(f, start_pos, max_search) ==
    ScanForward(f, start_pos, start_pos, max_search)

\* Lines 125-143: the split point recorded for one interior target.
SplitPointFor(f, target_pos) ==
    LET first == find_record_boundary_forward(f, target_pos, MaxSearch)
        retry == find_record_boundary_forward(f, target_pos, MaxSearchRetry)
    IN  IF first.kind = "found" /\ first.pos # 0 THEN first
        ELSE IF first.kind \in {"hang", "oserror"} THEN first
        ELSE IF retry.kind = "found" /\ retry.pos # 0 THEN retry
        ELSE IF retry.kind \in {"hang", "oserror"} THEN retry
        ELSE [kind |-> "fallback", pos |-> target_pos]

\* Lines 170-178: strip the separators left by the cut.
CleanChunk(chunk_data) ==
    LET a == lstrip(chunk_data)
        b == IF StartsWith(a, <<",">>) THEN lstrip(Tail(a)) ELSE a
        c == rstrip(b)
    IN  IF EndsWith(c, <<",">>) THEN rstrip(SubSeq(c, 1, Len(c) - 1)) ELSE c

\* Lines 156-194: the bytes written to shard file i (0-based) of n.
ShardBytes(f, points, i) ==
    LET start == points[i + 1] - (IF i > 0 THEN 1 ELSE 0)
        end == points[i + 2] - 1
        chunk_bytes == end - start
        chunk_data == IF chunk_bytes < 0 THEN Slice(f, start, Len(f))
                      ELSE Slice(f, start, start + chunk_bytes)
    IN  <<"{", "\"", "d", "a", "t", "a", "\"", ":", "{">>
        \o CleanChunk(chunk_data)
        \o (IF i < Len(points) - 2 THEN <<"}">> ELSE <<>>)
        \o <<"}">>

\* ------------------------------------------------------------------------
\* Splitter inputs
\* ------------------------------------------------------------------------
MaxRecords == 3
MaxSplits == 3

TrefoilCoeffs == << <<<<"1">>, <<"1">>>>, <<<<"3">>, <<"1">>>>, <<<<"4">>, <<"-", "1">>>> >>
RecordPool ==
    << [label |-> <<"3", "_", "1">>, coeffs |-> TrefoilCoeffs],
       [label |-> <<"4", "_", "1">>, coeffs |-> << <<<<"0">>, <<"1">>>>, <<<<"2">>, <<"-", "1">>>> >>],
       [label |-> <<"1", "1", "a", "_", "7">>, coeffs |-> << <<<<"1">>, <<"2">>>> >>],
       [label |-> <<"5", "_", "2">>, coeffs |-> TrefoilCoeffs] >>

RECURSIVE PickRecords(_)
PickRecords(S) ==
    IF S = {} THEN <<>> ELSE <<RecordPool[Min(S)]>> \o PickRecords(S \ {Min(S)})

\* Corpora: the pool's records in pool order, at least one and at most MaxRecords
Corpora ==
    {PickRecords(S) : S \in {T \in SUBSET (1..Len(RecordPool)) :
                                T # {} /\ Cardinality(T) <= MaxRecords}}

\* ------------------------------------------------------------------------
\* SpecSplit: ultra_fast_split(json_file, n_splits)
\* ------------------------------------------------------------------------
InitSplit ==
    /\ corpus \in Corpora
    /\ json_file = CorpusBytes(corpus)
    /\ n_splits \in 1..MaxSplits
    /\ data_start = 0
    /\ data_end = 0
    /\ split_points = <<>>
    /\ split_files = <<>>
    /\ split_pc = "locate"

file_size == Len(json_file)
chunk_size == (data_end - data_start) \div n_splits

\* Lines 98-120: find the data section; seek(-window, 2) on a shorter file raises.
LocateData ==
    /\ split_pc = "locate"
    /\ IF file_size < ScanWindow
       THEN /\ split_pc' = "oserror"
            /\ UNCHANGED <<data_start, data_end, split_points>>
       ELSE LET header == Slice(json_file, 0, ScanWindow)
                footer == Slice(json_file, file_size - ScanWindow, file_size)
                ds == Find(header, <<":", " ", "{">>, Find(header, <<"\"", "d", "a", "t", "a", "\"">>, 0)) + 3
            IN  /\ data_start' = ds
                /\ data_end' = file_size - Len(footer) + RFind(footer, <<"}">>)
                /\ split_points' = <<ds>>
                /\ split_pc' = "points"
    /\ UNCHANGED <<corpus, json_file, n_splits, split_files>>
    /\ UNCHANGED <<engine_vars, worker_vars, lib_vars, rerun_vars>>

\* Lines 123-143: one pass of the loop over the interior targets.
FindSplitPoint ==
    /\ split_pc = "points"
    /\ Len(split_points) < n_splits
    /\ LET i == Len(split_points)
           target_pos == data_start + i * chunk_size
           point == SplitPointFor(json_file, target_pos)
       IN  IF point.kind \in {"hang", "oserror"}
           THEN /\ split_pc' = point.kind
                /\ UNCHANGED split_points
           ELSE /\ split_points' = Append(split_points, point.pos)
                /\ UNCHANGED split_pc
    /\ UNCHANGED <<corpus, json_file, n_splits, data_start, data_end, split_files>>
    /\ UNCHANGED <<engine_vars, worker_vars, lib_vars, rerun_vars>>

\* Line 145: the data end closes the list.
CloseSplitPoints ==
    /\ split_pc = "points"
    /\ Len(split_points) = n_splits
    /\ split_points' = Append(split_points, data_end)
    /\ split_pc' = "write"
    /\ UNCHANGED <<corpus, json_file, n_splits, data_start, data_end, split_files>>
    /\ UNCHANGED <<engine_vars, worker_vars, lib_vars, rerun_vars>>

\* Lines 152-197: one pass of the loop writing the shard files.
WriteSplitFile ==
    /\ split_pc = "write"
    /\ Len(split_files) < Len(split_points) - 1
    /\ split_files' = Append(split_files, ShardBytes(json_file, split_points, Len(split_files)))
    /\ UNCHANGED <<corpus, json_file, n_splits, data_start, data_end, split_points, split_pc>>
    /\ UNCHANGED <<engine_vars, worker_vars, lib_vars, rerun_vars>>

\* Line 201: return split_files.
ReturnSplitFiles ==
    /\ split_pc = "write"
    /\ Len(split_files) = Len(split_points) - 1
    /\ split_pc' = "done"
    /\ UNCHANGED <<corpus, json_file, n_splits, data_start, data_end, split_points, split_files>>
    /\ UNCHANGED <<engine_vars, worker_vars, lib_vars, rerun_vars>>

NextSplit ==
    LocateData \/ FindSplitPoint \/ CloseSplitPoints \/ WriteSplitFile \/ ReturnSplitFiles

\* ------------------------------------------------------------------------
\* Jm_triviality.py, process_split_file: labels, coefficient maps, tables
\* ------------------------------------------------------------------------
\* str.split(sep)[0] and str.split(sep)[-1] for a one-character separator
SplitFirst(s, sep) ==
    LET at == {i \in 1..Len(s) : s[i] = sep}
    IN  IF at = {} THEN s ELSE SubSeq(s, 1, Min(at) - 1)

SplitLast(s, sep) ==
    LET at == {i \in 1..Len(s) : s[i] = sep}
    IN  IF at = {} THEN s ELSE SubSeq(s, Max(at) + 1, Len(s))

\* pat in s
Contains(s, pat) == Find(s, pat, 0) # -1

\* numerics(s, l): the digits of s joined, then [:l]
numerics(s, l) ==
    LET ds == SelectSeq(s, LAMBDA c : c \in Digits)
    IN  IF l >= 0 THEN Slice(ds, 0, l) ELSE Slice(ds, 0, Len(ds) + l)

DigitValue(c) ==
    CASE c = "0" -> 0 [] c = "1" -> 1 [] c = "2" -> 2 [] c = "3" -> 3 [] c = "4" -> 4
      [] c = "5" -> 5 [] c = "6" -> 6 [] c = "7" -> 7 [] c = "8" -> 8 [] c = "9" -> 9

RECURSIVE DigitsValue(_)
DigitsValue(s) ==
    IF s = <<>> THEN 0 ELSE 10 * DigitsValue(SubSeq(s, 1, Len(s) - 1)) + DigitValue(s[Len(s)])

\* int(s) of a string: an optional sign and at least one digit, else ValueError
IntOf(s) ==
    LET signed == s # <<>> /\ s[1] \in {"-", "+"}
        body == IF signed THEN Tail(s) ELSE s
    IN  IF body = <<>> \/ \E i \in 1..Len(body) : body[i] \notin Digits
        THEN [ok |-> FALSE, val |-> 0]
        ELSE [ok |-> TRUE,
              val |-> IF signed /\ s[1] = "-" THEN -DigitsValue(body) ELSE DigitsValue(body)]

\* str(i) for 0 <= i <= 99
DigitChars == <<"0", "1", "2", "3", "4", "5", "6", "7", "8", "9">>
Str(i) ==
    IF i < 10 THEN <<DigitChars[i + 1]>>
    ELSE <<DigitChars[(i \div 10) + 1], DigitChars[(i % 10) + 1]>>

\* Line 234: the crossing bucket of a label
CrossingsOf(knot_label) ==
    IF Contains(knot_label, <<"_">>) /\ ~Contains(knot_label, <<"j", "o", "n", "e", "s">>)
    THEN SplitFirst(knot_label, "_")
    ELSE numerics(knot_label, 2)

\* Line 236: the knot identifier of a label (int() may raise ValueError)
KnotIdOf(knot_label) ==
    IntOf(SplitLast(SplitLast(SplitLast(SplitLast(knot_label, "_"), ":"), "a"), "n"))

\* The member of a JSON object with key k, last one winning (dict semantics)
HasMember(obj, k) == \E i \in 1..Len(obj.v) : obj.v[i][1] = k
Member(obj, k) == obj.v[Max({i \in 1..Len(obj.v) : obj.v[i][1] = k})][2]

\* Line 229: {int(k): int(v) for k, v in knot_data.get("coeffs", {}).items()}
\* ok = FALSE when the expression raises (no .get, no .items, int() fails).
CoefsOf(knot_data) ==
    LET raised == [ok |-> FALSE, coefs |-> EmptyPoly]
        cf == IF HasMember(knot_data, <<"c", "o", "e", "f", "f", "s">>)
              THEN Member(knot_data, <<"c", "o", "e", "f", "f", "s">>) ELSE JObj(<<>>)
    IN  IF knot_data.t # "obj" THEN raised
        ELSE IF cf.t # "obj" THEN raised
        ELSE IF \E i \in 1..Len(cf.v) :
                   \/ ~IntOf(cf.v[i][1]).ok
                   \/ cf.v[i][2].t = "obj"
                   \/ ~IntOf(cf.v[i][2].v).ok
             THEN raised
        ELSE LET keys == {IntOf(cf.v[i][1]).val : i \in 1..Len(cf.v)}
                 last(k) == Max({i \in 1..Len(cf.v) : IntOf(cf.v[i][1]).val = k})
             IN  [ok |-> TRUE, coefs |-> [k \in keys |-> IntOf(cf.v[last(k)][2].v).val]]

min_m == 1

\* {str(i): ['', 2, defaultdict(int)] for i in range(1, 20)}: <<holder, max, histogram>>
BucketKeys == {Str(i) : i \in 1..19}
InitJmTable == [c \in BucketKeys |-> <<<<>>, 2, EmptyPoly>>]
\* {m: [] for m in range(10)}
InitKnotIds == [m \in 0..9 |-> <<>>]

\* A faulty UpdateRuns: a discontinuity overwrites the open run instead of
\* appending a new one.
UpdateRunsReopen(runs, crossings, knot_id, knot_label, interval) ==
    LET n == Len(runs)
    IN  IF runs = <<>> THEN <<<<crossings, knot_id, knot_id, knot_label>>>>
        ELSE IF knot_id > runs[n][3] + interval \/ crossings # runs[n][1]
             THEN [runs EXCEPT ![n] = <<crossings, knot_id, knot_id, knot_label>>]
             ELSE IF knot_id = runs[n][3] + 1
                  THEN [runs EXCEPT ![n][3] = runs[n][3] + 1]
                  ELSE runs

\* Lines 247-251: the run list of one Jm value after a record; a run is
\* <<crossings, first_id, last_id, label>>.
UpdateRuns(runs, crossings, knot_id, knot_label, interval) ==
    LET n == Len(runs)
    IN  IF runs = <<>> \/ knot_id > runs[n][3] + interval \/ crossings # runs[n][1]
        THEN Append(runs, <<crossings, knot_id, knot_id, knot_label>>)
        ELSE IF knot_id = runs[n][3] + 1
             THEN [runs EXCEPT ![n][3] = runs[n][3] + 1]
             ELSE runs

\* Lines 222-258 for one (knot_label, knot_data) pair.  raised = TRUE when an
\* exception leaves the for loop (caught by the outer try); otherwise the
\* record was counted or skipped and the loop goes on.
ClassifyRecord(table, knot_ids, engine, interval, knot_label, knot_data) ==
    LET same == [raised |-> FALSE, table |-> table, knot_ids |-> knot_ids]
        abort == [raised |-> TRUE, table |-> table, knot_ids |-> knot_ids]
        parsed == CoefsOf(knot_data)
        crossings == CrossingsOf(knot_label)
        id == KnotIdOf(knot_label)
        jm == Jtransform(engine, parsed.coefs)
        m == jm.m
        counted == [table EXCEPT ![crossings][3] =
                        (m :> Get(table[crossings][3], m) + 1) @@ table[crossings][3]]
        runs == IF m > min_m
                THEN [knot_ids EXCEPT ![m] = UpdateRuns(knot_ids[m], crossings, id.val,
                                                        knot_label, interval)]
                ELSE knot_ids
        held == IF m > counted[crossings][2]
                THEN [counted EXCEPT ![crossings][1] = knot_label, ![crossings][2] = m]
                ELSE counted
    IN  IF knot_label = <<"0", "_", "1">> THEN same
        ELSE IF ~parsed.ok THEN abort
        ELSE IF DOMAIN parsed.coefs = {} THEN same
        ELSE IF ~id.ok THEN abort
        ELSE IF jm.err # "" THEN same
        ELSE IF crossings \notin BucketKeys THEN same
        ELSE IF m > min_m /\ m \notin DOMAIN knot_ids
             THEN [raised |-> FALSE, table |-> counted, knot_ids |-> knot_ids]
        ELSE [raised |-> FALSE, table |-> held, knot_ids |-> runs]

\* ------------------------------------------------------------------------
\* Jm_triviality.py: merge_results and the probability derivation of main
\* ------------------------------------------------------------------------
\* {str(i): ['', 2, {m: 0 for m in range(2, 11)}] for i in range(1, 20)}
InitMergedTable == [c \in BucketKeys |-> <<<<>>, 2, [m \in 2..10 |-> 0]>>]

\* A faulty MergeTable: the holder and maximum of the latest worker always win.
MergeTableLastWins(merged_table, Jm_table) ==
    [c \in BucketKeys |->
        LET data == Jm_table[c]
            hist == [m \in DOMAIN merged_table[c][3] |-> merged_table[c][3][m] + Get(data[3], m)]
        IN  <<data[1], data[2], hist>>]

\* A faulty MergeTable: a worker whose maximum equals the merged one replaces the holder.
MergeTableTiesLast(merged_table, Jm_table) ==
    [c \in BucketKeys |->
        LET data == Jm_table[c]
            hist == [m \in DOMAIN merged_table[c][3] |-> merged_table[c][3][m] + Get(data[3], m)]
        IN  IF data[2] >= merged_table[c][2] THEN <<data[1], data[2], hist>>
            ELSE <<merged_table[c][1], merged_table[c][2], hist>>]

\* Lines 277-282 for one worker table: merged_table[c][2][m] += count raises
\* KeyError for an m the merged histogram has no key for.
MergeTable(merged_table, Jm_table) ==
    [c \in BucketKeys |->
        LET data == Jm_table[c]
            hist == [m \in DOMAIN merged_table[c][3] |-> merged_table[c][3][m] + Get(data[3], m)]
        IN  IF data[2] > merged_table[c][2] THEN <<data[1], data[2], hist>>
            ELSE <<merged_table[c][1], merged_table[c][2], hist>>]

\* A faulty MergeKnotIds: a worker's first run that continues the last merged
\* run of the same bucket is joined to it.
MergeKnotIdsJoined(merged_knot_ids, knot_ids) ==
    [m \in DOMAIN merged_knot_ids \cup DOMAIN knot_ids |->
        LET old == IF m \in DOMAIN merged_knot_ids THEN merged_knot_ids[m] ELSE <<>>
            new == IF m \in DOMAIN knot_ids THEN knot_ids[m] ELSE <<>>
        IN  IF old # <<>> /\ new # <<>> /\ new[1][1] = old[Len(old)][1]
               /\ new[1][2] = old[Len(old)][3] + 1
            THEN [old EXCEPT ![Len(old)][3] = new[1][3]] \o Tail(new)
            ELSE old \o new]

\* Lines 284-285: merged_knot_ids[m] = merged_knot_ids[m] + knots
MergeKnotIds(merged_knot_ids, knot_ids) ==
    [m \in DOMAIN merged_knot_ids \cup DOMAIN knot_ids |->
        (IF m \in DOMAIN merged_knot_ids THEN merged_knot_ids[m] ELSE <<>>)
        \o (IF m \in DOMAIN knot_ids THEN knot_ids[m] ELSE <<>>)]

RECURSIVE MergeFrom(_, _, _)
MergeFrom(worker_results, i, acc) ==
    IF i > Len(worker_results) \/ acc.err # "" THEN acc
    ELSE LET Jm_table == worker_results[i][1]
             knot_ids == worker_results[i][2]
         IN  IF \E c \in BucketKeys : \E m \in DOMAIN Jm_table[c][3] : m \notin 2..10
             THEN [err |-> "KeyError", table |-> acc.table, knot_ids |-> acc.knot_ids]
             ELSE MergeFrom(worker_results, i + 1,
                            [err |-> "",
                             table |-> MergeTable(acc.table, Jm_table),
                             knot_ids |-> MergeKnotIds(acc.knot_ids, knot_ids)])

merge_results(worker_results) ==
    MergeFrom(worker_results, 1, [err |-> "", table |-> InitMergedTable, knot_ids |-> EmptyPoly])

RECURSIVE SumOver(_, _)
SumOver(f, S) ==
    IF S = {} THEN 0 ELSE LET k == Min(S) IN f[k] + SumOver(f, S \ {k})

\* Keys of a histogram in increasing order
RECURSIVE Ascending(_)
Ascending(S) == IF S = {} THEN <<>> ELSE <<Min(S)>> \o Ascending(S \ {Min(S)})

\* main, lines 376-384: data[c] = [p/n_knots for i, p in d[2].items() if i <= d[1]]
\* for each bucket with a holder and n_knots > 0; p/n_knots as an exact fraction.
Probs(Jm_table) ==
    LET n_knots(c) == SumOver(Jm_table[c][3], DOMAIN Jm_table[c][3])
        listed == {c \in BucketKeys : Jm_table[c][1] # <<>> /\ n_knots(c) > 0}
    IN  [c \in listed |->
            LET keys == Ascending({i \in DOMAIN Jm_table[c][3] : i <= Jm_table[c][2]})
            IN  [j \in 1..Len(keys) |-> Fraction(Jm_table[c][3][keys[j]], n_knots(c))]]

\* A faulty UpdateProbs: an entry the file already has is kept.
UpdateProbsKeepsOld(data, Jm_table) == data @@ Probs(Jm_table)

\* A faulty UpdateProbs: the loaded entries are dropped.
UpdateProbsFresh(data, Jm_table) == Probs(Jm_table)

\* main, lines 376-384: data[c] = probs for every bucket with a list, the other
\* keys of the loaded data staying as they are.
UpdateProbs(data, Jm_table) == Probs(Jm_table) @@ data

\* ------------------------------------------------------------------------
\* Worker inputs
\* ------------------------------------------------------------------------
\* The parsed value of a record as ijson yields it: {"coeffs": {"e": c, ...}}
RecordValue(rec) ==
    JObj(<< <<<<"c", "o", "e", "f", "f", "s">>,
              JObj([i \in 1..Len(rec.coeffs) |-> <<rec.coeffs[i][1], JNum(rec.coeffs[i][2])>>])>> >>)

\* (q - 1)^3: the first three derivatives at q = 1 vanish
CubeCoeffs == << <<<<"0">>, <<"-", "1">>>>, <<<<"1">>, <<"3">>>>,
                 <<<<"2">>, <<"-", "3">>>>, <<<<"3">>, <<"1">>>> >>

\* (q - 1)^10 / q^5: the first nine derivatives at q = 1 vanish
TenthCoeffs ==
    << <<<<"-", "5">>, <<"1">>>>,
       <<<<"-", "4">>, <<"-", "1", "0">>>>,
       <<<<"-", "3">>, <<"4", "5">>>>,
       <<<<"-", "2">>, <<"-", "1", "2", "0">>>>,
       <<<<"-", "1">>, <<"2", "1", "0">>>>,
       <<<<"0">>, <<"-", "2", "5", "2">>>>,
       <<<<"1">>, <<"2", "1", "0">>>>,
       <<<<"2">>, <<"-", "1", "2", "0">>>>,
       <<<<"3">>, <<"4", "5">>>>,
       <<<<"4">>, <<"-", "1", "0">>>>,
       <<<<"5">>, <<"1">>>> >>

WorkerPool ==
    << [label |-> <<"3", "_", "1">>, coeffs |-> TrefoilCoeffs],
       [label |-> <<"3", "_", "2">>, coeffs |-> TrefoilCoeffs],
       [label |-> <<"3", "_", "4">>, coeffs |-> TrefoilCoeffs],
       [label |-> <<"4", "_", "1">>, coeffs |-> CubeCoeffs],
       [label |-> <<"4", "_", "2">>, coeffs |-> << <<<<"1">>, <<"1">>>> >>],
       [label |-> <<"4", "_", "3">>, coeffs |-> CubeCoeffs],
       [label |-> <<"4", "_", "4">>, coeffs |-> TenthCoeffs],
       [label |-> <<"3", "_", "3">>, coeffs |-> << <<<<"0">>, <<"1">>>> >>],
       [label |-> <<"3", "_", "x">>, coeffs |-> TrefoilCoeffs],
       [label |-> <<"3", "_", "5">>, coeffs |-> << <<<<"x">>, <<"1">>>> >>] >>

WorkerRecords == {WorkerPool[i] : i \in 1..Len(WorkerPool)}

\* --R accepts these; Jtransform has the keys "JVP" and "BL"
Reps == {"JVP", "BL", "Birman-Lin"}
\* --S takes any decimal string (line 326): 0 is accepted
SampleIntervals == {0, 1, 2}
MaxWorkers == 2

\* What Jm_probs.json can hold before the run: nothing, or a list from an
\* earlier run.
PriorProbFiles == {EmptyPoly, (<<"3">> :> <<Fraction(1, 2), Fraction(1, 2)>>)}

NotMerged == [err |-> "not run", table |-> InitMergedTable, knot_ids |-> EmptyPoly]

\* ------------------------------------------------------------------------
\* SpecWorker: pool.map(process_split_file, ...) then merge_results
\* ------------------------------------------------------------------------
\* The workers share nothing, so their runs are taken one after the other in
\* pool.map's result order.
InitWorker ==
    /\ rep \in Reps
    /\ sample_interval \in SampleIntervals
    /\ worker_id = 0
    /\ \E n \in 0..MaxRecords :
          /\ records_left \in 0..n
          /\ corpus_left = n - records_left
    /\ count = 0
    /\ local_Jm_table = InitJmTable
    /\ local_knot_ids = InitKnotIds
    /\ worker_pc = "reading"
    /\ results = <<>>
    /\ merged = NotMerged
    /\ prob_file = EmptyPoly
    /\ knot_id_file = EmptyPoly

\* Lines 221-258: one pass of the for loop over the parser's items.
ProcessRecord ==
    /\ worker_pc = "reading"
    /\ records_left > 0
    /\ \E rec \in WorkerRecords :
          LET out == ClassifyRecord(local_Jm_table, local_knot_ids, rep, sample_interval,
                                    rec.label, RecordValue(rec))
          IN  /\ local_Jm_table' = out.table
              /\ local_knot_ids' = out.knot_ids
              /\ worker_pc' = IF out.raised THEN "record_raised" ELSE "reading"
    /\ count' = count + 1
    /\ records_left' = records_left - 1
    /\ UNCHANGED <<rep, sample_interval, worker_id, corpus_left, results, merged,
                   prob_file, knot_id_file>>
    /\ UNCHANGED <<engine_vars, split_vars, lib_vars, rerun_vars>>

\* Lines 218-221: open() or the streaming parser raises on the shard file.
ParserRaises ==
    /\ worker_pc = "reading"
    /\ worker_pc' = "parser_raised"
    /\ UNCHANGED <<rep, sample_interval, worker_id, records_left, corpus_left, count,
                   local_Jm_table, local_knot_ids, results, merged, prob_file, knot_id_file>>
    /\ UNCHANGED <<engine_vars, split_vars, lib_vars, rerun_vars>>

\* A faulty return that hands back fresh tables after a parser fault
ReturnResultDropsPartial ==
    /\ \/ worker_pc = "reading" /\ records_left = 0
       \/ worker_pc \in {"record_raised", "parser_raised"}
    /\ results' = Append(results, IF worker_pc = "parser_raised"
                                   THEN <<InitJmTable, InitKnotIds>>
                                   ELSE <<local_Jm_table, local_knot_ids>>)
    /\ worker_pc' = "returned"
    /\ UNCHANGED <<rep, sample_interval, worker_id, records_left, corpus_left, count,
                   local_Jm_table, local_knot_ids, merged, prob_file, knot_id_file>>
    /\ UNCHANGED <<engine_vars, split_vars, lib_vars, rerun_vars>>

\* Lines 259-268: the loop ended or the outer except caught; the worker returns.
ReturnResult ==
    /\ \/ worker_pc = "reading" /\ records_left = 0
       \/ worker_pc \in {"record_raised", "parser_raised"}
    /\ results' = Append(results, <<local_Jm_table, local_knot_ids>>)
    /\ worker_pc' = "returned"
    /\ UNCHANGED <<rep, sample_interval, worker_id, records_left, corpus_left, count,
                   local_Jm_table, local_knot_ids, merged, prob_file, knot_id_file>>
    /\ UNCHANGED <<engine_vars, split_vars, lib_vars, rerun_vars>>

\* Lines 204-215: the next worker of the pool starts on its shard.
StartWorker ==
    /\ worker_pc = "returned"
    /\ Len(results) < MaxWorkers
    /\ worker_id' = worker_id + 1
    /\ records_left' \in 0..corpus_left
    /\ corpus_left' = corpus_left - records_left'
    /\ count' = 0
    /\ local_Jm_table' = InitJmTable
    /\ local_knot_ids' = InitKnotIds
    /\ worker_pc' = "reading"
    /\ UNCHANGED <<rep, sample_interval, results, merged, prob_file, knot_id_file>>
    /\ UNCHANGED <<engine_vars, split_vars, lib_vars, rerun_vars>>

\* main, line 367: Jm_table, knot_ids = merge_results(results)
MergeResults ==
    /\ worker_pc = "returned"
    /\ merged' = merge_results(results)
    /\ worker_pc' = IF merged'.err = "" THEN "merged" ELSE "merge_raised"
    /\ UNCHANGED <<rep, sample_interval, worker_id, records_left, corpus_left, count,
                   local_Jm_table, local_knot_ids, results, prob_file, knot_id_file>>
    /\ UNCHANGED <<engine_vars, split_vars, lib_vars, rerun_vars>>

\* main, lines 369-390: read the probability file if it exists, overwrite the
\* rows of the buckets this run derived, write it and the run table.
WriteOutputs ==
    /\ worker_pc = "merged"
    /\ \E data \in PriorProbFiles :
          prob_file' = UpdateProbs(data, merged.table)
    /\ knot_id_file' = merged.knot_ids
    /\ worker_pc' = "written"
    /\ UNCHANGED <<rep, sample_interval, worker_id, records_left, corpus_left, count,
                   local_Jm_table, local_knot_ids, results, merged>>
    /\ UNCHANGED <<engine_vars, split_vars, lib_vars, rerun_vars>>

NextWorker ==
    ProcessRecord \/ ParserRaises \/ ReturnResult \/ StartWorker \/ MergeResults \/ WriteOutputs

\* ------------------------------------------------------------------------
\* SpecEngine: the engines applied to one coefficient map
\* ------------------------------------------------------------------------
NotRun == [err |-> "not run", m |-> 0]
EngineCalls == {"BL", "JVP", "BLhalf", "JVPhalf", "BLmirror", "JVPmirror"}

InitEngine ==
    /\ e_coefs \in CoefMaps
    /\ e_res = [c \in EngineCalls |-> NotRun]

\* Jtransform["BL"], and the BL derivation on half-power input (exponent_den = 2)
ApplyBL ==
    /\ e_res["BL"] = NotRun
    /\ e_res' = [e_res EXCEPT !["BL"] = Jtransform("BL", e_coefs),
                              !["BLhalf"] = Jm_bl(taylor_from_jones(e_coefs, HalfOrder, 2).a)]
    /\ UNCHANGED <<e_coefs, split_vars, worker_vars, lib_vars, rerun_vars>>

\* Jtransform["JVP"], and the JVP derivation with input_q_is_half_power=True
ApplyJVP ==
    /\ e_res["JVP"] = NotRun
    /\ e_res' = [e_res EXCEPT !["JVP"] = Jtransform("JVP", e_coefs),
                              !["JVPhalf"] = Jm_of_Vxp(jones_to_Vxp(e_coefs, TRUE))]
    /\ UNCHANGED <<e_coefs, split_vars, worker_vars, lib_vars, rerun_vars>>

\* Both driver engines on the mirrored map
ApplyMirror ==
    /\ e_res["BLmirror"] = NotRun
    /\ e_res' = [e_res EXCEPT !["BLmirror"] = Jtransform("BL", Mirror(e_coefs)),
                              !["JVPmirror"] = Jtransform("JVP", Mirror(e_coefs))]
    /\ UNCHANGED <<e_coefs, split_vars, worker_vars, lib_vars, rerun_vars>>

NextEngine == ApplyBL \/ ApplyJVP \/ ApplyMirror


\* ------------------------------------------------------------------------
\* SpecLib: one call of taylor_from_jones or of jones_to_Vxp
\* ------------------------------------------------------------------------
MaxOrder == 3
DocOrder == 6

\* The docstring's trefoil in powers of q^(1/2)
TrefoilHalf == (2 :> 1) @@ (6 :> 1) @@ (8 :> -1)

LibMaps == CoefMaps \cup {TrefoilHalf}
TaylorOrders == (-1..MaxOrder) \cup {DocOrder}

NoSeries == [err |-> "not called", a |-> <<>>]
NoPair == <<>>

InitLib ==
    /\ lib_coefs \in LibMaps
    /\ lib_n = 0
    /\ lib_den = 1
    /\ lib_half = FALSE
    /\ lib_series = NoSeries
    /\ lib_pair = NoPair

\* taylor_from_jones(coefs, n, exponent_den=d)
ApplyTaylor ==
    /\ lib_series = NoSeries /\ lib_pair = NoPair
    /\ lib_n' \in TaylorOrders
    /\ lib_den' \in {1, 2}
    /\ lib_series' = taylor_from_jones(lib_coefs, lib_n', lib_den')
    /\ UNCHANGED <<lib_coefs, lib_half, lib_pair>>
    /\ UNCHANGED <<engine_vars, split_vars, worker_vars, rerun_vars>>

\* jones_to_Vxp(coefs, input_q_is_half_power=half)
ApplyVxp ==
    /\ lib_series = NoSeries /\ lib_pair = NoPair
    /\ lib_half' \in BOOLEAN
    /\ lib_pair' = jones_to_Vxp(lib_coefs, lib_half')
    /\ UNCHANGED <<lib_coefs, lib_n, lib_den, lib_series>>
    /\ UNCHANGED <<engine_vars, split_vars, worker_vars, rerun_vars>>

NextLib == ApplyTaylor \/ ApplyVxp

\* ------------------------------------------------------------------------
\* SpecReruns: two runs of main against the same output files
\* ------------------------------------------------------------------------
\* Lines 222-262 over a whole shard: the worker's tables after its records,
\* or what it had when a record raised out of the loop.
RECURSIVE ClassifyFrom(_, _, _, _)
ClassifyFrom(recs, i, table, knot_ids) ==
    IF i > Len(recs) THEN <<table, knot_ids>>
    ELSE LET r == ClassifyRecord(table, knot_ids, rep, sample_interval,
                                 recs[i].label, RecordValue(recs[i]))
         IN  IF r.raised THEN <<r.table, r.knot_ids>>
             ELSE ClassifyFrom(recs, i + 1, r.table, r.knot_ids)

process_split_file(recs) == ClassifyFrom(recs, 1, InitJmTable, InitKnotIds)

\* The shard lists a run can be started on
RunInputs ==
    LET cube3 == [label |-> <<"3", "_", "1">>, coeffs |-> CubeCoeffs]
        tref3 == [label |-> <<"3", "_", "2">>, coeffs |-> TrefoilCoeffs]
        cube4 == [label |-> <<"4", "_", "1">>, coeffs |-> CubeCoeffs]
        cube5 == [label |-> <<"5", "_", "1">>, coeffs |-> CubeCoeffs]
        line4 == [label |-> <<"4", "_", "2">>, coeffs |-> << <<<<"1">>, <<"1">>>> >>]
    IN  { << <<cube3>> >>,
          << <<cube4>> >>,
          << <<cube3, tref3>>, <<cube5>> >>,
          << <<tref3>> >>,
          << <<line4>> >> }

DriverRuns == {1, 2}

InitReruns ==
    /\ run_pc = [r \in DriverRuns |-> "start"]
    /\ run_merged = [r \in DriverRuns |-> NotMerged]
    /\ run_data = [r \in DriverRuns |-> EmptyPoly]
    /\ run_overlap = FALSE
    /\ prob_file \in PriorProbFiles
    /\ knot_id_file = EmptyPoly

\* main, lines 363-367: the workers' results merged; a KeyError of
\* merge_results ends the run before any file is touched.
RunMerge(r) ==
    /\ run_pc[r] = "start"
    /\ \E shards \in RunInputs :
          run_merged' = [run_merged EXCEPT ![r] =
              merge_results([i \in 1..Len(shards) |-> process_split_file(shards[i])])]
    /\ run_pc' = [run_pc EXCEPT ![r] =
                     IF run_merged'[r].err = "" THEN "merged" ELSE "merge_raised"]
    /\ UNCHANGED <<run_data, run_overlap, worker_vars>>
    /\ UNCHANGED <<engine_vars, split_vars, lib_vars>>

\* main, lines 369-370: data = json.load(open(outfile)) if outfile.exists() else {}
RunLoad(r) ==
    /\ run_pc[r] = "merged"
    /\ run_data' = [run_data EXCEPT ![r] = prob_file]
    /\ run_pc' = [run_pc EXCEPT ![r] = "loaded"]
    /\ run_overlap' = (run_overlap \/ \E s \in DriverRuns \ {r} : run_pc[s] = "loaded")
    /\ UNCHANGED <<run_merged, worker_vars>>
    /\ UNCHANGED <<engine_vars, split_vars, lib_vars>>

\* main, lines 376-387: the computed lists put into data, data dumped over the file
RunWriteProbs(r) ==
    /\ run_pc[r] = "loaded"
    /\ prob_file' = UpdateProbs(run_data[r], run_merged[r].table)
    /\ run_pc' = [run_pc EXCEPT ![r] = "probs_written"]
    /\ UNCHANGED <<rep, sample_interval, worker_id, records_left, corpus_left, count,
                   local_Jm_table, local_knot_ids, worker_pc, results, merged, knot_id_file>>
    /\ UNCHANGED <<run_merged, run_data, run_overlap>>
    /\ UNCHANGED <<engine_vars, split_vars, lib_vars>>

\* main, lines 389-390: knot_ids dumped over the run table file
RunWriteKnotIds(r) ==
    /\ run_pc[r] = "probs_written"
    /\ knot_id_file' = run_merged[r].knot_ids
    /\ run_pc' = [run_pc EXCEPT ![r] = "done"]
    /\ UNCHANGED <<rep, sample_interval, worker_id, records_left, corpus_left, count,
                   local_Jm_table, local_knot_ids, worker_pc, results, merged, prob_file>>
    /\ UNCHANGED <<run_merged, run_data, run_overlap>>
    /\ UNCHANGED <<engine_vars, split_vars, lib_vars>>

NextReruns ==
    \/ \E r \in DriverRuns : RunMerge(r)
    \/ \E r \in DriverRuns : RunLoad(r)
    \/ \E r \in DriverRuns : RunWriteProbs(r)
    \/ \E r \in DriverRuns : RunWriteKnotIds(r)

\* ------------------------------------------------------------------------
\* Properties of the splitter (SpecSplit)
\* ------------------------------------------------------------------------
RECURSIVE ShardItemsFrom(_, _)
ShardItemsFrom(files, i) ==
    IF i > Len(files) THEN <<>>
    ELSE kvitems(files[i]).items \o ShardItemsFrom(files, i + 1)

\* What the shard readers see, in shard order
ShardItems == ShardItemsFrom(split_files, 1)
\* The corpus's data records in their original order
CorpusItems == [i \in 1..Len(corpus) |-> <<corpus[i].label, RecordValue(corpus[i])>>]

\* C1: once ultra_fast_split has returned, reading the shard files in shard
\* order yields exactly the corpus's data records in their original order.
C1_ShardsHoldEveryRecordOnce == split_pc = "done" => ShardItems = CorpusItems

\* C2: once ultra_fast_split has returned it has written exactly n_splits
\* shard files and each is a valid JSON object with a "data" object.
C2_ShardsAreValidJson ==
    split_pc = "done" =>
        /\ Len(split_files) = n_splits
        /\ \A i \in 1..Len(split_files) :
              kvitems(split_files[i]).valid /\ kvitems(split_files[i]).hasData

\* C18: find_record_boundary_forward terminates from every starting offset
\* of the corpus file: it returns a boundary, or returns None after reading at
\* most max_search bytes, also when the end of the file comes before any
\* letter or underscore.
C18_ScanAlwaysReturns ==
    \A start_pos \in 0..Len(json_file) :
        find_record_boundary_forward(json_file, start_pos, MaxSearch).kind \in {"found", "none"}

\* Offsets of the opening quotes of the data object's top-level record labels
LabelQuotes ==
    {o \in 0..(Len(json_file) - 1) :
        \E i \in 1..Len(corpus) :
            StartsWith(Slice(json_file, o, Len(json_file)),
                       <<"\"">> \o corpus[i].label \o <<"\"", ":", " ", "{">>)}

\* C19: from every target offset inside the data section, a boundary that
\* find_record_boundary_forward returns is the position just after the opening
\* quote of a top-level record label, never that of a nested key such as
\* "coeffs"; so is every interior split point ultra_fast_split recorded.
C19_BoundariesOpenARecord ==
    Len(split_points) >= 1 =>
        /\ \A target_pos \in data_start..data_end :
              LET boundary == find_record_boundary_forward(json_file, target_pos, MaxSearch)
              IN  boundary.kind = "found" => (boundary.pos - 1) \in LabelQuotes
        /\ \A i \in 2..Len(split_points) :
              i <= n_splits => (split_points[i] - 1) \in LabelQuotes

\* C20: whatever the scans from a target find, the loop over the interior
\* targets records exactly one split point for each: the first scan's
\* boundary, else the retry's, else the raw target; so once the loop has been
\* left the list holds data_start and one point per interior target.
C20_OneSplitPointPerTarget ==
    (Len(split_points) >= 1 /\ split_pc # "points") =>
        /\ Len(split_points) \in {n_splits, n_splits + 1}
        /\ \A i \in 2..n_splits :
              split_points[i] = SplitPointFor(json_file, data_start + (i - 1) * chunk_size).pos

\* ------------------------------------------------------------------------
\* Properties of the workers and the merge (SpecWorker)
\* ------------------------------------------------------------------------
\* C3: no record raises out of process_split_file's loop while records of the
\* shard are still unread, so every record after a bad one is still classified.
C3_BadRecordNeverAbortsShard == ~(worker_pc = "record_raised" /\ records_left > 0)

\* Every Jm value some worker's histogram of bucket c has a count for
ReportedJm(c) == UNION {DOMAIN results[i][1][c][3] : i \in 1..Len(results)}

RECURSIVE WorkerCountSum(_, _, _)
WorkerCountSum(c, m, i) ==
    IF i > Len(results) THEN 0
    ELSE Get(results[i][1][c][3], m) + WorkerCountSum(c, m, i + 1)

\* C4: merge_results completes without error, and for every crossing bucket
\* and every Jm value a worker reports the merged count is the sum of the
\* workers' counts.
C4_MergeSumsHistograms ==
    worker_pc \in {"merged", "merge_raised"} =>
        /\ merged.err = ""
        /\ \A c \in BucketKeys : \A m \in ReportedJm(c) :
              Get(merged.table[c][3], m) = WorkerCountSum(c, m, 1)

\* The orders a list of n worker results can be presented in
Orders(n) == {f \in [1..n -> 1..n] : \A i, j \in 1..n : f[i] = f[j] => i = j}
Reordered(f) == [i \in 1..Len(results) |-> results[f[i]]]
Histograms(table) == [c \in BucketKeys |-> table[c][3]]

\* C5: for every order of the worker results, merge_results ends the same way
\* (completes or raises) and, when it completes, gives the same per-bucket
\* histograms and the same probability table.
C5_MergeIsOrderIndependent ==
    worker_pc \in {"merged", "merge_raised"} =>
        \A f \in Orders(Len(results)) :
            LET other == merge_results(Reordered(f))
            IN  /\ other.err = merged.err
                /\ merged.err = "" =>
                      /\ Histograms(other.table) = Histograms(merged.table)
                      /\ Probs(other.table) = Probs(merged.table)

\* Two workers with different tables were merged and a probability row exists
C5_Witness ==
    /\ worker_pc = "merged"
    /\ Len(results) = 2
    /\ results[1][1] # results[2][1]
    /\ results[1][1] # InitJmTable
    /\ results[2][1] # InitJmTable
    /\ DOMAIN Probs(merged.table) # {}

\* first_id, bucket and label kept, last_id not decreased
RunGrew(old, new) == new[1] = old[1] /\ new[2] = old[2] /\ new[4] = old[4] /\ new[3] >= old[3]

RECURSIVE HandedRuns(_, _)
HandedRuns(m, i) ==
    IF i > Len(results') THEN <<>>
    ELSE (IF m \in DOMAIN results'[i][2] THEN results'[i][2][m] ELSE <<>>) \o HandedRuns(m, i + 1)

\* C10: in every step, each run of the reading worker keeps its first_id and
\* only the last run of a Jm list can change, by a larger last_id, and not in
\* a step that appends a run after it; runs handed to merge_results reach the
\* merged lists unchanged and are never modified afterwards.
C10_RunsOnlyGrowWhileOpen ==
    [][/\ worker_pc = "reading" =>
             \A m \in DOMAIN local_knot_ids :
                 LET old == local_knot_ids[m]
                     new == local_knot_ids'[m]
                     n == Len(old)
                 IN  /\ Len(new) >= n
                     /\ \A i \in 1..(n - 1) : new[i] = old[i]
                     /\ n > 0 => RunGrew(old[n], new[n])
                     /\ (n > 0 /\ Len(new) > n) => new[n] = old[n]
       /\ Len(results') >= Len(results)
       /\ \A i \in 1..Len(results) : results'[i] = results[i]
       /\ Len(results') > Len(results) => results'[Len(results')][2] = local_knot_ids
       /\ merged.err = "" => merged' = merged
       /\ (merged.err # "" /\ merged'.err = "") =>
             \A m \in DOMAIN merged'.knot_ids : merged'.knot_ids[m] = HandedRuns(m, 1)
      ]_vars

\* A merged Jm list holds a run that grew and a run appended after it
C10_Witness ==
    /\ worker_pc = "merged"
    /\ \E m \in DOMAIN merged.knot_ids :
          /\ Len(merged.knot_ids[m]) >= 2
          /\ merged.knot_ids[m][1][3] > merged.knot_ids[m][1][2]

\* ------------------------------------------------------------------------
\* Properties of the engines (SpecEngine)
\* ------------------------------------------------------------------------
BothReturned(a, b) == e_res[a].err = "" /\ e_res[b].err = ""

\* C6: under either convention (integer-power input to both derivations, or
\* half-power input to both) the BL and the JVP derivation return the same Jm
\* whenever both return one.
C6_EnginesAgree ==
    /\ BothReturned("BL", "JVP") => e_res["BL"].m = e_res["JVP"].m
    /\ BothReturned("BLhalf", "JVPhalf") => e_res["BLhalf"].m = e_res["JVPhalf"].m

\* C7 as stated: for the trefoil map both driver engines report Jm = 3.
C7_TrefoilIsThree ==
    e_coefs = Trefoil =>
        /\ e_res["BL"] # NotRun => e_res["BL"] = Returned(3)
        /\ e_res["JVP"] # NotRun => e_res["JVP"] = Returned(3)

\* C7 as the code has it: for the trefoil map {4:-1, 3:1, 1:1} the BL engine
\* at order 11 and the JVP engine on integer-power input both report Jm = 2.
C7_TrefoilIsTwo ==
    e_coefs = Trefoil =>
        /\ e_res["BL"] # NotRun => e_res["BL"] = Returned(2)
        /\ e_res["JVP"] # NotRun => e_res["JVP"] = Returned(2)

C7_Witness ==
    e_coefs = Trefoil /\ e_res["BL"] = Returned(2) /\ e_res["JVP"] = Returned(2)

C9_UnknotHasNoJm ==
    e_coefs = Unknot =>
        \A c \in {"BL", "JVP", "BLhalf", "JVPhalf"} :
            /\ ~(e_res[c].err = "" /\ e_res[c].m > 0)
            /\ e_res[c] # NotRun => e_res[c].err = "IndexError"

C9_Witness ==
    e_coefs = Unknot /\ e_res["BL"].err = "IndexError" /\ e_res["JVP"].err = "IndexError"

\* ------------------------------------------------------------------------
\* Properties of the driver's run after the shards are handed out (SpecWorker)
\* ------------------------------------------------------------------------
\* C11: a driver run stops only after the probability table and the run table
\* were written: it never ends in merge_results with an exception that leaves
\* both files unwritten, whatever records the shards held.
C11_RunStopsOnlyWritten ==
    /\ worker_pc # "merge_raised"
    /\ worker_pc = "written" => knot_id_file = merged.knot_ids

\* Records of bucket c counted by the merge, and the greatest Jm among them
ClassifiedCount(c) == SumOver(merged.table[c][3], DOMAIN merged.table[c][3])

ObservedMax(c) == Max({i \in DOMAIN merged.table[c][3] : merged.table[c][3][i] > 0})

\* C12: once the outputs are written, every bucket with at least one
\* classified record has a row in the probability table, and entry i of the
\* row (counted from 0) is count(Jm = i + 2) / (bucket's classified count) for
\* every Jm from 2 up to the bucket's observed maximum, buckets whose records
\* all have Jm = 2 included.
C12_EveryClassifiedBucketHasItsRow ==
    worker_pc = "written" =>
        \A c \in BucketKeys :
            ClassifiedCount(c) > 0 =>
                /\ c \in DOMAIN prob_file
                /\ prob_file[c] =
                       [j \in 1..(ObservedMax(c) - 1) |->
                           Fraction(merged.table[c][3][j + 1], ClassifiedCount(c))]

\* C13: a fault of open() or of the streaming parser does not make
\* process_split_file raise: the fault changes neither the worker's tables nor
\* the results already returned, the worker's next step is its return, and
\* that return hands back exactly the histogram and the runs accumulated from
\* the records read before the fault; no step alters another worker's result.
C13_FaultReturnsWhatWasAccumulated ==
    [][/\ (worker_pc = "reading" /\ worker_pc' = "parser_raised") =>
              /\ local_Jm_table' = local_Jm_table
              /\ local_knot_ids' = local_knot_ids
              /\ results' = results
       /\ worker_pc = "parser_raised" =>
              /\ worker_pc' = "returned"
              /\ results' = Append(results, <<local_Jm_table, local_knot_ids>>)
       /\ \A i \in 1..Len(results) :
              Len(results') >= i /\ results'[i] = results[i]]_vars

\* The parser failed in the second worker after it had counted records
C13_Witness ==
    /\ worker_pc = "parser_raised"
    /\ Len(results) >= 1
    /\ count > 0
    /\ \E c \in BucketKeys : local_Jm_table[c] # InitJmTable[c]
    /\ \E m \in DOMAIN local_knot_ids : local_knot_ids[m] # <<>>

\* The greatest Jm any worker reported for bucket c, and the first worker reporting it
GreatestReported(c) == Max({results[i][1][c][2] : i \in 1..Len(results)})

FirstReporting(c) == Min({i \in 1..Len(results) : results[i][1][c][2] = GreatestReported(c)})

\* C14: after merge_results each bucket's holder and maximum are the
\* (label, Jm) pair of the worker that reported the strictly greatest Jm for
\* the bucket; among workers reporting the same greatest Jm the first in list
\* order keeps the holder.
C14_HolderIsFirstGreatest ==
    (worker_pc \in {"merged", "written"} /\ Len(results) > 0) =>
        \A c \in BucketKeys :
            /\ merged.table[c][2] = GreatestReported(c)
            /\ merged.table[c][1] = results[FirstReporting(c)][1][c][1]

\* Two workers reported the same greatest Jm for a bucket with different holders
C14_Witness ==
    /\ worker_pc = "merged"
    /\ Len(results) = 2
    /\ \E c \in BucketKeys :
          /\ results[1][1][c][2] > 2
          /\ results[1][1][c][2] = results[2][1][c][2]
          /\ results[1][1][c][1] # results[2][1][c][1]
          /\ merged.table[c][1] = results[1][1][c][1]

\* The run lists workers 1..i returned for a Jm value, one after the other
RECURSIVE WorkersRuns(_, _)
WorkersRuns(m, i) ==
    IF i = 0 THEN <<>> ELSE WorkersRuns(m, i - 1) \o results[i][2][m]

\* C26: for every Jm value the merged run list is the workers' run lists
\* concatenated in worker order: each worker run once, its bucket, first_id,
\* last_id and label unchanged, and no two runs joined across workers.
C26_MergedRunsAreConcatenated ==
    worker_pc \in {"merged", "written"} =>
        /\ DOMAIN merged.knot_ids \subseteq DOMAIN InitKnotIds
        /\ \A m \in DOMAIN InitKnotIds :
              (IF m \in DOMAIN merged.knot_ids THEN merged.knot_ids[m] ELSE <<>>)
                  = WorkersRuns(m, Len(results))

\* Two workers returned runs for the same Jm, the second worker's first run
\* starting at the successor of the first worker's last run in the same bucket
C26_Witness ==
    /\ worker_pc = "merged"
    /\ Len(results) = 2
    /\ \E m \in DOMAIN InitKnotIds :
          LET one == results[1][2][m]
              two == results[2][2][m]
          IN  /\ one # <<>> /\ two # <<>>
              /\ two[1][1] = one[Len(one)][1]
              /\ two[1][2] = one[Len(one)][3] + 1
              /\ Len(merged.knot_ids[m]) = Len(one) + Len(two)

\* C27: a driver run loads the probability table the file holds, replaces
\* the entries of the buckets it computed a list for and leaves every other
\* bucket's entry as the file had it; the run table file then holds this run's
\* runs and nothing else.
C27_RunReplacesOnlyItsBuckets ==
    [][\A r \in DriverRuns :
          LET computed == Probs(run_merged[r].table)
          IN  /\ (run_pc[r] = "merged" /\ run_pc'[r] = "loaded") => run_data'[r] = prob_file
              /\ (run_pc[r] = "loaded" /\ run_pc'[r] = "probs_written"
                      /\ prob_file = run_data[r]) =>
                     /\ DOMAIN prob_file' = DOMAIN prob_file \cup DOMAIN computed
                     /\ \A c \in DOMAIN computed : prob_file'[c] = computed[c]
                     /\ \A c \in DOMAIN prob_file \ DOMAIN computed :
                           prob_file'[c] = prob_file[c]
              /\ (run_pc[r] = "probs_written" /\ run_pc'[r] = "done") =>
                     knot_id_file' = run_merged[r].knot_ids]_vars

\* A run finished over a file that held a bucket it did not compute and a
\* different list for a bucket it did compute, the other run having left its
\* runs in the run table file before
C27_Witness ==
    \E r \in DriverRuns :
        LET computed == Probs(run_merged[r].table)
        IN  /\ run_pc[r] = "done"
            /\ \E c \in DOMAIN run_data[r] \ DOMAIN computed : prob_file[c] = run_data[r][c]
            /\ \E c \in DOMAIN run_data[r] \cap DOMAIN computed :
                  run_data[r][c] # computed[c] /\ prob_file[c] = computed[c]
            /\ \E s \in DriverRuns \ {r} :
                  /\ run_pc[s] = "done"
                  /\ run_merged[s].knot_ids # run_merged[r].knot_ids
                  /\ knot_id_file = run_merged[r].knot_ids

\* The buckets run r wrote a list for that the file no longer has, or has
\* with another run's list although that run computed none for the bucket
LostEntries(r) ==
    {c \in DOMAIN Probs(run_merged[r].table) :
        /\ \A s \in DriverRuns \ {r} : c \notin DOMAIN Probs(run_merged[s].table)
        /\ c \notin DOMAIN prob_file \/ prob_file[c] # Probs(run_merged[r].table)[c]}

\* C28: two driver runs on the same probability file are unsafe only when
\* they overlap: once both have written, bucket entries of a run are missing
\* from the file only if one run loaded the table between the other's load
\* and write; runs taken one after the other keep both runs' entries.
C28_SerializedRunsKeepBoth ==
    ((\A r \in DriverRuns : run_pc[r] \in {"probs_written", "done"}) /\ ~run_overlap) =>
        \A r \in DriverRuns : LostEntries(r) = {}

\* Both runs have written and the entries of one of them are gone
C28_Witness ==
    /\ \A r \in DriverRuns : run_pc[r] = "done"
    /\ \E r \in DriverRuns : LostEntries(r) # {}

\* The pool's records that reach the run tracking of lines 246-251 in the
\* worker's present state: well-formed, Jm above min_m, an open run for that Jm
TrackedRecords ==
    {rec \in WorkerRecords :
        LET parsed == CoefsOf(RecordValue(rec))
            jm == Jtransform(rep, parsed.coefs)
        IN  /\ rec.label # <<"0", "_", "1">>
            /\ parsed.ok /\ DOMAIN parsed.coefs # {}
            /\ KnotIdOf(rec.label).ok
            /\ jm.err = "" /\ jm.m > min_m /\ jm.m \in DOMAIN local_knot_ids
            /\ CrossingsOf(rec.label) \in BucketKeys
            /\ local_knot_ids[jm.m] # <<>>}

JmOfRecord(rec) == Jtransform(rep, CoefsOf(RecordValue(rec)).coefs).m
OpenRun(rec) == local_knot_ids[JmOfRecord(rec)][Len(local_knot_ids[JmOfRecord(rec)])]
RunsAfter(rec) ==
    ClassifyRecord(local_Jm_table, local_knot_ids, rep, sample_interval,
                   rec.label, RecordValue(rec)).knot_ids[JmOfRecord(rec)]

\* C21: a record with Jm above the threshold whose identifier is the open
\* run's last identifier plus one, in the same bucket, adds one to the open
\* run's last_id and starts no new run.
C21_SuccessorExtendsRun ==
    (worker_pc = "reading" /\ records_left > 0) =>
        \A rec \in TrackedRecords :
            (/\ KnotIdOf(rec.label).val = OpenRun(rec)[3] + 1
             /\ CrossingsOf(rec.label) = OpenRun(rec)[1]) =>
                LET runs == local_knot_ids[JmOfRecord(rec)]
                IN  RunsAfter(rec) = [runs EXCEPT ![Len(runs)][3] = OpenRun(rec)[3] + 1]

\* C22: a record whose identifier is not the successor but lies within the
\* sample interval after the open run's last identifier, in the same bucket,
\* extends the open run by jumping: last_id becomes the identifier, first_id
\* stays and no new run is started.
C22_WithinIntervalJumps ==
    (worker_pc = "reading" /\ records_left > 0) =>
        \A rec \in TrackedRecords :
            LET id == KnotIdOf(rec.label).val
            IN  (/\ id # OpenRun(rec)[3] + 1
                 /\ id > OpenRun(rec)[3]
                 /\ id <= OpenRun(rec)[3] + sample_interval
                 /\ CrossingsOf(rec.label) = OpenRun(rec)[1]) =>
                    LET runs == local_knot_ids[JmOfRecord(rec)]
                    IN  RunsAfter(rec) = [runs EXCEPT ![Len(runs)][3] = id]

\* C23: every other record with Jm above the threshold (another bucket, an
\* identifier beyond the sample interval, or one not greater than the open
\* run's last identifier) seals the open run and starts the run
\* [bucket, id, id, label].
C23_OtherwiseNewRun ==
    (worker_pc = "reading" /\ records_left > 0) =>
        \A rec \in TrackedRecords :
            LET id == KnotIdOf(rec.label).val
            IN  (\/ CrossingsOf(rec.label) # OpenRun(rec)[1]
                 \/ id > OpenRun(rec)[3] + Max({sample_interval, 1})
                 \/ id <= OpenRun(rec)[3]) =>
                    RunsAfter(rec) = Append(local_knot_ids[JmOfRecord(rec)],
                                            <<CrossingsOf(rec.label), id, id, rec.label>>)

\* The table a worker holds after reading rec in its present state
TableAfter(rec) ==
    ClassifyRecord(local_Jm_table, local_knot_ids, rep, sample_interval,
                   rec.label, RecordValue(rec)).table

\* C24: whatever records a worker has read, each bucket's recorded maximum is
\* at least every Jm its histogram has a nonzero count for, and a record that
\* is counted with a Jm above the bucket's running maximum becomes the holder
\* with its label and Jm.
C24_MaximumCoversHistogram ==
    /\ \A c \in BucketKeys : \A m \in DOMAIN local_Jm_table[c][3] :
          local_Jm_table[c][3][m] > 0 => local_Jm_table[c][2] >= m
    /\ (worker_pc = "reading" /\ records_left > 0) =>
          \A rec \in WorkerRecords : \A after \in {TableAfter(rec)} :
              \A c \in BucketKeys : \A m \in DOMAIN after[c][3] :
                  (after[c][3][m] > Get(local_Jm_table[c][3], m) /\ m > local_Jm_table[c][2])
                      => (after[c][1] = rec.label /\ after[c][2] = m)

\* Labels of the two corpus conventions, <crossings><a|n>_<id> and
\* <source>:<id>, each carrying the coefficients of (q - 1)^3.
ConventionRecords ==
    { [label |-> <<"1", "1", "a", "_", "7">>, coeffs |-> CubeCoeffs],
      [label |-> <<"1", "2", "n", "_", "3">>, coeffs |-> CubeCoeffs],
      [label |-> <<"1", "3", "n", ":", "5">>, coeffs |-> CubeCoeffs] }

\* The longest run of digits a label starts with, and the one it ends with.
LeadingNumerals(s) ==
    SubSeq(s, 1, Max({i \in 0..Len(s) : \A j \in 1..i : s[j] \in Digits}))

TrailingNumerals(s) ==
    SubSeq(s, Min({i \in 1..Len(s) + 1 : \A j \in i..Len(s) : s[j] \in Digits}), Len(s))

\* C25: for every label of the conventions <crossings><a|n>_<id> and
\* <source>:<id>, the crossing bucket derived is the label's leading numeral
\* run, the knot identifier is the value of its trailing numeral segment, and
\* the record adds one to that bucket's histogram.
C25_ConventionLabelsAreCounted ==
    (worker_pc = "reading" /\ records_left > 0) =>
        \A rec \in ConventionRecords :
            LET bucket == LeadingNumerals(rec.label)
                after == TableAfter(rec)
            IN  /\ CrossingsOf(rec.label) = bucket
                /\ KnotIdOf(rec.label) =
                       [ok |-> TRUE, val |-> DigitsValue(TrailingNumerals(rec.label))]
                /\ SumOver(after[bucket][3], DOMAIN after[bucket][3]) =
                       SumOver(local_Jm_table[bucket][3], DOMAIN local_Jm_table[bucket][3]) + 1

\* The pool's records a worker can classify: a label with a bucket and an
\* identifier, a non-empty integer coefficient map, a Jm the engines determine
WellFormedRecords ==
    {rec \in WorkerRecords :
        LET parsed == CoefsOf(RecordValue(rec))
        IN  /\ rec.label # <<"0", "_", "1">>
            /\ parsed.ok /\ DOMAIN parsed.coefs # {}
            /\ KnotIdOf(rec.label).ok
            /\ CrossingsOf(rec.label) \in BucketKeys
            /\ Jtransform("JVP", parsed.coefs).err = ""
            /\ Jtransform("BL", parsed.coefs).err = ""}

\* C29: under each value --R accepts, 'JVP' and 'Birman-Lin', a worker
\* classifies a well-formed record with the engine of that name: the record
\* is counted in the histogram of its bucket.
C29_AcceptedRepsClassify ==
    (rep \in {"JVP", "Birman-Lin"} /\ worker_pc = "reading" /\ records_left > 0) =>
        \A rec \in WellFormedRecords : \A after \in {TableAfter(rec)} :
            LET c == CrossingsOf(rec.label)
            IN  SumOver(after[c][3], DOMAIN after[c][3]) =
                    SumOver(local_Jm_table[c][3], DOMAIN local_Jm_table[c][3]) + 1

\* Exact sum of a list of fractions
RECURSIVE FracSum(_, _)
FracSum(list, i) ==
    IF i = 0 THEN Fraction(0, 1) ELSE FracAdd(FracSum(list, i - 1), list[i])

\* C30: every probability list the driver writes for a bucket sums to 1.
C30_ListsSumToOne ==
    worker_pc = "written" =>
        \A c \in DOMAIN Probs(merged.table) :
            FracSum(prob_file[c], Len(prob_file[c])) = Fraction(1, 1)

\* Records whose BL series at the driver's order has no nonzero a_1..a_n
Undetermined ==
    {rec \in WorkerRecords :
        LET parsed == CoefsOf(RecordValue(rec))
        IN  /\ parsed.ok /\ DOMAIN parsed.coefs # {}
            /\ KnotIdOf(rec.label).ok
            /\ Jm_bl(taylor_from_jones(parsed.coefs, BLOrder, 1).a).err = "IndexError"}

\* C17: with the BL engine, a record whose series shows no nonzero
\* coefficient among a_1..a_n is surfaced: reading it leaves something in the
\* worker's result (its histograms or runs) or ends the loop with an error,
\* instead of leaving the result as every other skipped record leaves it.
C17_UndeterminedIsSurfaced ==
    (rep = "BL" /\ worker_pc = "reading" /\ records_left > 0) =>
        \A rec \in Undetermined :
            LET out == ClassifyRecord(local_Jm_table, local_knot_ids, rep, sample_interval,
                                      rec.label, RecordValue(rec))
            IN  out.raised \/ out.table # local_Jm_table \/ out.knot_ids # local_knot_ids

\* ------------------------------------------------------------------------
\* Properties of the two derivations as library calls (SpecLib)
\* ------------------------------------------------------------------------
RECURSIVE IntPow(_, _)
IntPow(b, m) == IF m = 0 THEN 1 ELSE b * IntPow(b, m - 1)

\* sum over the terms of c_k * k^m, in integers
RECURSIVE IntPowerSum(_, _, _)
IntPowerSum(keys, coefs, m) ==
    IF keys = {} THEN 0
    ELSE LET k == CHOOSE e \in keys : TRUE
         IN  coefs[k] * IntPow(k, m) + IntPowerSum(keys \ {k}, coefs, m)

\* The list of the docstring: [1, 0, -3, -6, -29/4, -13/2, -187/40]
TrefoilSeries ==
    << <<1, 1>>, <<0, 1>>, <<-3, 1>>, <<-6, 1>>, <<-29, 4>>, <<-13, 2>>, <<-187, 40>> >>

RECURSIVE Binom(_, _)
Binom(d, j) == IF j = 0 THEN 1 ELSE (Binom(d, j - 1) * (d - j + 1)) \div j

\* Coefficient of x^e in p^d, where p = x - 1/x (from x (x - p) = 1)
PowerOfPCoef(d, e) ==
    IF d - e < 0 \/ d - e > 2 * d \/ (d - e) % 2 # 0 THEN 0
    ELSE LET j == (d - e) \div 2
         IN  (IF j % 2 = 0 THEN 1 ELSE -1) * Binom(d, j)

\* Coefficient of x^e in P(p), P a map degree -> coefficient
RECURSIVE PolyInX(_, _, _)
PolyInX(P, keys, e) ==
    IF keys = {} THEN 0
    ELSE LET d == CHOOSE k \in keys : TRUE
         IN  P[d] * PowerOfPCoef(d, e) + PolyInX(P, keys \ {d}, e)

\* Coefficient of x^e in A(p) + B(p) x as a Laurent polynomial in x
PairInX(A, B, e) == PolyInX(A, DOMAIN A, e) + PolyInX(B, DOMAIN B, e - 1)

\* Coefficient of x^e in V: q^k is x^k on half-power input and x^(2k) otherwise
InputInX(coefs, half, e) ==
    IF half THEN Get(coefs, e)
    ELSE IF e % 2 = 0 THEN Get(coefs, e \div 2) ELSE 0

\* Exponents of x that either side can reach
ReachInX(coefs, A, B) ==
    LET top == Max({0} \cup {2 * Abs(k) : k \in DOMAIN coefs} \cup DOMAIN A
                   \cup {d + 1 : d \in DOMAIN B})
    IN  (-top)..top

\* C16: jones_to_Vxp returns the pair (A, B) with V = A(p) + B(p) x in the
\* ring x^2 = p x + 1 (x-powers for exponents >= 0, (x - p)-powers for
\* negative ones): written out in x and 1/x, with p = x - 1/x, both sides have
\* the same coefficients, which fixes the pair; the half-power unlink gives
\* p - 2x, the trefoil 1 - 3p^2 - 6x p^3 - 4p^4 - 5x p^5 - p^6 - x p^7, the
\* mirror trefoil 1 - 3p^2 + 6x p^3 - 10p^4 + 5x p^5 - 6p^6 + x p^7 - p^8; and
\* neither map stores a zero coefficient.
C16_VxpIsTheRingForm ==
    lib_pair # NoPair =>
        LET A == lib_pair[1]
            B == lib_pair[2]
        IN  /\ \A d \in DOMAIN A : d >= 0 /\ A[d] # 0
            /\ \A d \in DOMAIN B : d >= 0 /\ B[d] # 0
            /\ \A e \in ReachInX(lib_coefs, A, B) :
                  PairInX(A, B, e) = InputInX(lib_coefs, lib_half, e)
            /\ (lib_coefs = UnlinkHalf /\ lib_half) =>
                  (A = (1 :> 1) /\ B = (0 :> -2))
            /\ (lib_coefs = Trefoil /\ ~lib_half) =>
                  /\ A = (0 :> 1) @@ (2 :> -3) @@ (4 :> -4) @@ (6 :> -1)
                  /\ B = (3 :> -6) @@ (5 :> -5) @@ (7 :> -1)
            /\ (lib_coefs = MirrorTrefoil /\ ~lib_half) =>
                  /\ A = (0 :> 1) @@ (2 :> -3) @@ (4 :> -10) @@ (6 :> -6) @@ (8 :> -1)
                  /\ B = (3 :> 6) @@ (5 :> 5) @@ (7 :> 1)

\* A map with exponents of both signs was converted and terms cancelled on the way
C16_Witness ==
    /\ lib_pair # NoPair
    /\ lib_coefs = UnlinkHalf /\ lib_half
    /\ lib_pair = <<(1 :> 1), (0 :> -2)>>

\* ------------------------------------------------------------------------
\* The specifications
\* ------------------------------------------------------------------------
\* A part that does not run keeps its variables at these values.
EngineIdle == e_coefs = EmptyPoly /\ e_res = [c \in EngineCalls |-> NotRun]
SplitIdle ==
    /\ corpus = <<>> /\ json_file = <<>> /\ n_splits = 1 /\ data_start = 0 /\ data_end = 0
    /\ split_points = <<>> /\ split_files = <<>> /\ split_pc = "idle"
PoolIdle ==
    /\ rep = "JVP" /\ sample_interval = 1 /\ worker_id = 0 /\ records_left = 0
    /\ corpus_left = 0 /\ count = 0 /\ local_Jm_table = InitJmTable
    /\ local_knot_ids = InitKnotIds /\ worker_pc = "idle" /\ results = <<>>
    /\ merged = NotMerged
WorkerIdle == PoolIdle /\ prob_file = EmptyPoly /\ knot_id_file = EmptyPoly
LibIdle ==
    /\ lib_coefs = EmptyPoly /\ lib_n = 0 /\ lib_den = 1 /\ lib_half = FALSE
    /\ lib_series = NoSeries /\ lib_pair = NoPair
RerunsIdle ==
    /\ run_pc = [r \in DriverRuns |-> "idle"]
    /\ run_merged = [r \in DriverRuns |-> NotMerged]
    /\ run_data = [r \in DriverRuns |-> EmptyPoly]
    /\ run_overlap = FALSE

EngineStart == InitEngine /\ SplitIdle /\ WorkerIdle /\ LibIdle /\ RerunsIdle
SpecEngine == EngineStart /\ [][NextEngine]_vars

SplitStart == InitSplit /\ EngineIdle /\ WorkerIdle /\ LibIdle /\ RerunsIdle
SpecSplit == SplitStart /\ [][NextSplit]_vars

WorkerStart == InitWorker /\ EngineIdle /\ SplitIdle /\ LibIdle /\ RerunsIdle
SpecWorker == WorkerStart /\ [][NextWorker]_vars

LibStart == InitLib /\ EngineIdle /\ SplitIdle /\ WorkerIdle /\ RerunsIdle
SpecLib == LibStart /\ [][NextLib]_vars

RerunsStart == InitReruns /\ EngineIdle /\ SplitIdle /\ PoolIdle /\ LibIdle
SpecReruns == RerunsStart /\ [][NextReruns]_vars

====
